---- MODULE Spec2Model ----
(***************************************************************************)
(* A model of teo-language-parser: the Logos-derived lexer of              *)
(* src/lexer/lexer.rs (its rules, the longest-match / priority choice      *)
(* among them, and the consumer loop of main) and the file system utility  *)
(* of src/fsutil (FSUtil with injected functions, and the default          *)
(* implementations built on std::path and path_clean).                     *)
(*                                                                         *)
(* A text is a sequence of one-character strings; offsets are 0-based as   *)
(* in the Rust spans, so the character at offset i of buf is buf[i + 1].   *)
(***************************************************************************)
EXTENDS Integers, Sequences, FiniteSets, TLC

VARIABLES
    buf,        \* the source buffer handed to Token::lexer
    pos,        \* the lexer's cursor (token_end)
    results,    \* every (Result<Token>, span) the iterator has yielded
    printed,    \* the (token, span) pairs main has printed (the Ok ones)
    done,       \* the iterator has returned None
    fsutil,     \* the FSUtil instance: which function each field holds
    argA,       \* first argument of the file system call
    argB,       \* second argument of the file system call
    op,         \* the FSUtil method that was called ("none" before the call)
    result,     \* what the method returned
    calls       \* the injected functions called, in order, with arguments

vars == <<buf, pos, results, printed, done, fsutil, argA, argB, op, result, calls>>
lexVars == <<buf, pos, results, printed, done>>
fsVars == <<fsutil, argA, argB, op, result, calls>>

----------------------------------------------------------------------------
(* Bounds of the model *)

\* longest buffer drawn over LexAlphabet
MaxLen == 4
\* longest run of identifier characters appended to a (prefix of a) reserved word
MaxSuffix == 1
\* longest path drawn over PathAlphabet
MaxPathLen == 3

----------------------------------------------------------------------------
(* Generic helpers *)

Max(a, b) == IF a >= b THEN a ELSE b

At(s, i) == s[i + 1]

\* the characters of s at offsets [from, to)
Slice(s, from, to) == IF to <= from THEN <<>> ELSE SubSeq(s, from + 1, to)

RECURSIVE SeqsUpTo(_, _)
SeqsUpTo(S, n) ==
    IF n = 0 THEN {<<>>}
    ELSE LET shorter == SeqsUpTo(S, n - 1)
         IN  shorter \cup {Append(s, c) : s \in shorter, c \in S}

----------------------------------------------------------------------------
(* Character classes of the lexer rules *)

Lower == {"a","b","c","d","e","f","g","h","i","j","k","l","m",
          "n","o","p","q","r","s","t","u","v","w","x","y","z"}
Upper == {"A","B","C","D","E","F","G","H","I","J","K","L","M",
          "N","O","P","Q","R","S","T","U","V","W","X","Y","Z"}
Digit == {"0","1","2","3","4","5","6","7","8","9"}

\* #[logos(skip r"[ \t\n\f]+")]
IsSkip(c) == c \in {" ", "\t", "\n", "\f"}

\* [a-zA-Z]
IsIdentStart(c) == c \in Lower \cup Upper

\* [a-zA-Z0-9_-]
IsIdentPart(c) == c \in Lower \cup Upper \cup Digit \cup {"_", "-"}

----------------------------------------------------------------------------
(* The rules of enum Token *)

\* the #[token("...")] rules, in source order: the 13 reserved words, then
\* the 22 one-character operators and punctuation marks
TokenRules == <<
    [kind |-> "Import", text |-> <<"i","m","p","o","r","t">>],
    [kind |-> "Include", text |-> <<"i","n","c","l","u","d","e">>],
    [kind |-> "From", text |-> <<"f","r","o","m">>],
    [kind |-> "Let", text |-> <<"l","e","t">>],
    [kind |-> "Var", text |-> <<"v","a","r">>],
    [kind |-> "Enum", text |-> <<"e","n","u","m">>],
    [kind |-> "Model", text |-> <<"m","o","d","e","l">>],
    [kind |-> "Type", text |-> <<"t","y","p","e">>],
    [kind |-> "Function", text |-> <<"f","u","n","c","t","i","o","n">>],
    [kind |-> "Struct", text |-> <<"s","t","r","u","c","t">>],
    [kind |-> "Config", text |-> <<"c","o","n","f","i","g">>],
    [kind |-> "Native", text |-> <<"n","a","t","i","v","e">>],
    [kind |-> "Where", text |-> <<"w","h","e","r","e">>],
    [kind |-> "Plus", text |-> <<"+">>],
    [kind |-> "Minus", text |-> <<"-">>],
    [kind |-> "Star", text |-> <<"*">>],
    [kind |-> "Slash", text |-> <<"/">>],
    [kind |-> "Percent", text |-> <<"%">>],
    [kind |-> "Caret", text |-> <<"^">>],
    [kind |-> "Ampersand", text |-> <<"&">>],
    [kind |-> "Pipe", text |-> <<"|">>],
    [kind |-> "Bang", text |-> <<"!">>],
    [kind |-> "Question", text |-> <<"?">>],
    [kind |-> "Period", text |-> <<".">>],
    [kind |-> "Colon", text |-> <<":">>],
    [kind |-> "Comma", text |-> <<",">>],
    [kind |-> "BraceOpen", text |-> <<"{">>],
    [kind |-> "BraceClose", text |-> <<"}">>],
    [kind |-> "ParenOpen", text |-> <<"(">>],
    [kind |-> "ParenClose", text |-> <<")">>],
    [kind |-> "BracketOpen", text |-> <<"[">>],
    [kind |-> "BracketClose", text |-> <<"]">>],
    [kind |-> "AngleOpen", text |-> <<"<">>],
    [kind |-> "AngleClose", text |-> <<">">>],
    [kind |-> "Equal", text |-> <<"=">>]
>>

Keywords == {TokenRules[i].kind : i \in 1..13}
ReservedWords == {TokenRules[i].text : i \in 1..13}
KeywordOf(w) == TokenRules[CHOOSE i \in 1..13 : TokenRules[i].text = w].kind

\* a #[token] rule matches exactly its text
MatchToken(text, b, p) ==
    IF p + Len(text) <= Len(b) /\ Slice(b, p, p + Len(text)) = text
    THEN Len(text) ELSE 0

\* [a-zA-Z0-9_-]*: the end of the longest run from offset i
RECURSIVE IdentRunEnd(_, _)
IdentRunEnd(b, i) ==
    IF i < Len(b) /\ IsIdentPart(At(b, i)) THEN IdentRunEnd(b, i + 1) ELSE i

\* #[regex("[a-zA-Z][a-zA-Z0-9_-]*")]: length of the longest match at p, or 0
MatchIdentifier(b, p) ==
    IF p < Len(b) /\ IsIdentStart(At(b, p))
    THEN IdentRunEnd(b, p + 1) - p ELSE 0

\* a plausible slip: `.` also matches a newline
IsDotAll(c) == TRUE

\* `.` of the regex syntax: any character but a newline
IsDot(c) == c # "\n"

\* .*: the end of the longest run from offset i
RECURSIVE DotRunEnd(_, _)
DotRunEnd(b, i) ==
    IF i < Len(b) /\ IsDot(At(b, i)) THEN DotRunEnd(b, i + 1) ELSE i

\* #[regex("/.+/")]: a `/`, one or more non-newline characters, a `/`; the
\* repetition is greedy, so the longest match ends at the last `/` of the line
MatchRegex(b, p) ==
    IF p < Len(b) /\ At(b, p) = "/"
    THEN LET lineEnd == DotRunEnd(b, p + 1)
             closers == {q \in (p + 2)..(lineEnd - 1) : At(b, q) = "/"}
         IN  IF closers = {} THEN 0
             ELSE (CHOOSE q \in closers : \A r \in closers : r <= q) + 1 - p
    ELSE 0

\* the body and closing quote of #[regex(r#""(?:[^"]|\\")*""#)] from offset i:
\* the end of the longest match, or -1. A body step is one character that is
\* not a quote (a backslash is such a character) or a backslash and a quote.
RECURSIVE StringScan(_, _)
StringScan(b, i) ==
    IF i >= Len(b) THEN -1
    ELSE LET c == At(b, i)
             close == IF c = "\"" THEN i + 1 ELSE -1
             viaChar == IF c # "\"" THEN StringScan(b, i + 1) ELSE -1
             viaEscape == IF c = "\\" /\ i + 1 < Len(b) /\ At(b, i + 1) = "\""
                          THEN StringScan(b, i + 2) ELSE -1
         IN  Max(close, Max(viaChar, viaEscape))

MatchString(b, p) ==
    IF p < Len(b) /\ At(b, p) = "\"" /\ StringScan(b, p + 1) > 0
    THEN StringScan(b, p + 1) - p ELSE 0

IsNotNewline(c) == c # "\n"

\* [^\n]*: the end of the longest run from offset i
RECURSIVE NotNewlineRunEnd(_, _)
NotNewlineRunEnd(b, i) ==
    IF i < Len(b) /\ IsNotNewline(At(b, i)) THEN NotNewlineRunEnd(b, i + 1) ELSE i

\* #[regex("//[^\n]*")]
MatchLineComment(b, p) ==
    IF p + 1 < Len(b) /\ At(b, p) = "/" /\ At(b, p + 1) = "/"
    THEN NotNewlineRunEnd(b, p + 2) - p ELSE 0

\* Logos gives a literal 2 per character, a character class 2, a loop 0, and
\* a concatenation the sum of its parts (x+ is x followed by a loop of x)
TokenPriority(text) == 2 * Len(text)
RegexPriority(kind) ==
    CASE kind = "Identifier" -> 2 + 0
      [] kind = "Regex" -> 2 + (2 + 0) + 2
      [] kind = "String" -> 2 + 0 + 2
      [] kind = "LineComment" -> 4 + 0

\* every rule that matches at p, with the length of its longest match
Candidates(b, p) ==
    {[kind |-> TokenRules[i].kind,
      len |-> MatchToken(TokenRules[i].text, b, p),
      priority |-> TokenPriority(TokenRules[i].text)] :
        i \in {j \in DOMAIN TokenRules : MatchToken(TokenRules[j].text, b, p) > 0}}
    \cup {[kind |-> "Identifier", len |-> MatchIdentifier(b, p),
           priority |-> RegexPriority("Identifier")] : x \in {y \in {0} : MatchIdentifier(b, p) > 0}}
    \cup {[kind |-> "Regex", len |-> MatchRegex(b, p),
           priority |-> RegexPriority("Regex")] : x \in {y \in {0} : MatchRegex(b, p) > 0}}
    \cup {[kind |-> "String", len |-> MatchString(b, p),
           priority |-> RegexPriority("String")] : x \in {y \in {0} : MatchString(b, p) > 0}}
    \cup {[kind |-> "LineComment", len |-> MatchLineComment(b, p),
           priority |-> RegexPriority("LineComment")] : x \in {y \in {0} : MatchLineComment(b, p) > 0}}

\* a plausible slip: the rule of higher priority wins whatever the lengths
WinsByPriority(c, d) ==
    c.priority > d.priority \/ (c.priority = d.priority /\ c.len >= d.len)

\* the derived lexer prefers the longer match and, between matches of one
\* length, the rule of higher priority
Wins(c, d) ==
    c.len > d.len \/ (c.len = d.len /\ c.priority >= d.priority)

\* a plausible slip: the skip class also swallows the `+` sign
RECURSIVE SkipEndPlus(_, _)
SkipEndPlus(b, p) ==
    IF p < Len(b) /\ (IsSkip(At(b, p)) \/ At(b, p) = "+")
    THEN SkipEndPlus(b, p + 1) ELSE p

\* #[logos(skip ...)]: where the next token starts when the cursor is at p
RECURSIVE SkipEnd(_, _)
SkipEnd(b, p) ==
    IF p < Len(b) /\ IsSkip(At(b, p)) THEN SkipEnd(b, p + 1) ELSE p

\* one pull of the iterator with the cursor at p: the end of input, a token,
\* or an error, with the span's start (the span of an error ends where the
\* lexer resumes, see ErrorEnds)
Lex(b, p) ==
    LET s == SkipEnd(b, p)
        cands == Candidates(b, s)
    IN  IF s >= Len(b) THEN [kind |-> "End", start |-> s, end |-> s]
        ELSE IF cands = {} THEN [kind |-> "Error", start |-> s, end |-> s + 1]
        ELSE LET best == CHOOSE c \in cands : \A d \in cands : Wins(c, d)
             IN  [kind |-> best.kind, start |-> s, end |-> s + best.len]

\* a plausible slip: an error consumes nothing
ErrorEndsStuck(b, s) == {s}

\* Where the lexer resumes after an error at s. A character no rule starts
\* with is passed over alone. A string that is never closed has been read to
\* the end of the buffer when the match fails; how much of it the error span
\* takes is the lexer library's choice and is left open here.
ErrorEnds(b, s) ==
    IF At(b, s) = "\"" THEN (s + 1)..Len(b) ELSE {s + 1}

----------------------------------------------------------------------------
(* The buffers the lexer is run on *)

LexAlphabet == {"/", "\"", "\\", "a", " ", "\n", "+", "#"}
SuffixAlphabet == {"s", "x", "-", "_", "1", " "}

CharBuffers == SeqsUpTo(LexAlphabet, MaxLen)

\* every non-empty prefix of a reserved word (the word itself included)
\* followed by a short run of characters that continue or end an identifier
WordBuffers ==
    UNION {{SubSeq(w, 1, n) \o suffix :
                n \in 1..Len(w),
                suffix \in SeqsUpTo(SuffixAlphabet, MaxSuffix)} :
           w \in ReservedWords}

\* the buffer of main (shortened to one field) and the lines the
\* specification gives as examples
ExampleBuffers == {
    <<"m","o","d","e","l"," ","U","s","e","r"," ","{"," ","i","d",":"," ",
      "S","t","r","i","n","g",","," ","}">>,
    <<"l","e","t"," ","a"," ","="," ","\"","a"," ","\\","\""," ","q","\"","\n">>,
    <<"/","a","/"," ","+"," ","/","b","/">>,
    <<"\"","a","\\","\"","b","\"">>,
    <<"a"," ","/"," ","b","\n","/","/"," ","c","/","d","\n","e">>
}

Buffers == CharBuffers \cup WordBuffers \cup ExampleBuffers

----------------------------------------------------------------------------
(* The lexer run: main's loop `for (token, span) in lex.spanned()` *)

LexInit ==
    /\ buf \in Buffers
    /\ pos = 0
    /\ results = <<>>
    /\ printed = <<>>
    /\ done = FALSE

\* the iterator yields Ok(token): main prints the token and its span
EmitToken ==
    /\ ~done
    /\ LET r == Lex(buf, pos)
       IN  /\ r.kind \notin {"End", "Error"}
           /\ results' = Append(results, r)
           /\ printed' = Append(printed, r)
           /\ pos' = r.end
    /\ UNCHANGED <<buf, done>>

\* the iterator yields Err: `if let Ok(token) = token` prints nothing and the
\* loop goes on with the next pull
SkipError ==
    /\ ~done
    /\ LET r == Lex(buf, pos)
       IN  /\ r.kind = "Error"
           /\ \E e \in ErrorEnds(buf, r.start) :
                /\ results' = Append(results, [r EXCEPT !.end = e])
                /\ pos' = e
    /\ UNCHANGED <<buf, printed, done>>

\* the iterator returns None (trailing whitespace is consumed first)
EndOfInput ==
    /\ ~done
    /\ LET r == Lex(buf, pos)
       IN  /\ r.kind = "End"
           /\ pos' = r.end
    /\ done' = TRUE
    /\ UNCHANGED <<buf, results, printed>>

FsIdle ==
    /\ fsutil = [path_join |-> "default", parent_directory |-> "default"]
    /\ argA = <<>>
    /\ argB = <<>>
    /\ op = "none"
    /\ result = <<>>
    /\ calls = <<>>

Init == LexInit /\ FsIdle

Next ==
    \/ EmitToken /\ UNCHANGED fsVars
    \/ SkipError /\ UNCHANGED fsVars
    \/ EndOfInput /\ UNCHANGED fsVars

Spec == Init /\ [][Next]_vars

----------------------------------------------------------------------------
(* Paths: std::path on a Unix target, and path_clean *)

IsSep(c) == c = "/"

\* Path::has_root / Path::is_absolute
path_is_absolute(p) == Len(p) > 0 /\ IsSep(p[1])

\* Components::include_cur_dir: a leading `.` component is kept
IncludeCurDir(p) ==
    /\ ~path_is_absolute(p)
    /\ Len(p) > 0 /\ p[1] = "."
    /\ (Len(p) = 1 \/ IsSep(p[2]))

\* the pieces of p between separators, empty ones included
RECURSIVE Segments(_)
Segments(p) ==
    LET seps == {i \in 1..Len(p) : IsSep(p[i])}
    IN  IF seps = {} THEN <<p>>
        ELSE LET i == CHOOSE j \in seps : \A k \in seps : j <= k
             IN  <<SubSeq(p, 1, i - 1)>> \o Segments(SubSeq(p, i + 1, Len(p)))

RootDir == <<"/">>
CurDir == <<".">>
ParentDir == <<".", ".">>

\* Path::components: the root, a leading `.`, then the segments that are
\* neither empty nor `.`
Components(p) ==
    (IF path_is_absolute(p) THEN <<RootDir>> ELSE <<>>)
    \o (IF IncludeCurDir(p) THEN <<CurDir>> ELSE <<>>)
    \o SelectSeq(Segments(p), LAMBDA s : s # <<>> /\ s # CurDir)

\* a plausible slip: a separator is written whatever the base is
PushAlwaysSep(base, path) ==
    IF path_is_absolute(path) THEN path ELSE base \o <<"/">> \o path

\* PathBuf::push, which Path::join applies to a copy of base
Push(base, path) ==
    IF path_is_absolute(path) THEN path
    ELSE IF Len(base) > 0 /\ ~IsSep(base[Len(base)]) THEN base \o <<"/">> \o path
    ELSE base \o path

\* PathClean::clean's loop over the components, out being the kept ones
RECURSIVE CleanFold(_, _, _)
CleanFold(comps, i, out) ==
    IF i > Len(comps) THEN out
    ELSE LET comp == comps[i]
             last == IF out = <<>> THEN <<>> ELSE out[Len(out)]
         IN  IF comp = CurDir THEN CleanFold(comps, i + 1, out)
             ELSE IF comp = ParentDir
             THEN IF last = RootDir THEN CleanFold(comps, i + 1, out)
                  ELSE IF last # <<>> /\ last # CurDir /\ last # ParentDir
                       THEN CleanFold(comps, i + 1, SubSeq(out, 1, Len(out) - 1))
                  ELSE CleanFold(comps, i + 1, Append(out, comp))
             ELSE CleanFold(comps, i + 1, Append(out, comp))

\* out.iter().collect::<PathBuf>(): the components pushed one after another
RECURSIVE Collect(_, _, _)
Collect(comps, i, acc) ==
    IF i > Len(comps) THEN acc ELSE Collect(comps, i + 1, Push(acc, comps[i]))

\* PathClean::clean
clean(p) ==
    LET out == CleanFold(Components(p), 1, <<>>)
    IN  IF out # <<>> THEN Collect(out, 1, <<>>) ELSE <<".">>

\* default.rs path_join: Path::new(base).join(Path::new(path)).clean()
path_join(base, path) == clean(Push(base, path))

\* Components::len_before_body
LenBeforeBody(p) ==
    (IF path_is_absolute(p) THEN 1 ELSE 0) + (IF IncludeCurDir(p) THEN 1 ELSE 0)

\* Components::parse_next_component_back on the first e characters of p:
\* the last component and the number of characters it takes with its
\* separator; comp is <<>> for a component the iterator skips
ParseBack(p, e) ==
    LET lb == LenBeforeBody(p)
        seps == {i \in lb..(e - 1) : IsSep(At(p, i))}
        sep == IF seps = {} THEN -1 ELSE CHOOSE i \in seps : \A j \in seps : j <= i
        text == IF sep = -1 THEN Slice(p, lb, e) ELSE Slice(p, sep + 1, e)
    IN  [size |-> Len(text) + (IF sep = -1 THEN 0 ELSE 1),
         comp |-> IF text = CurDir THEN <<>> ELSE text]

\* Components::trim_right: drop trailing separators and skipped components
RECURSIVE TrimRight(_, _)
TrimRight(p, e) ==
    IF e > LenBeforeBody(p)
    THEN LET r == ParseBack(p, e)
         IN  IF r.comp # <<>> THEN e ELSE TrimRight(p, e - r.size)
    ELSE e

\* Path::parent: the length of the parent of the first e characters of p,
\* or -1 when there is none (the path is empty or ends in the root)
RECURSIVE ParentLen(_, _)
ParentLen(p, e) ==
    IF e > LenBeforeBody(p)
    THEN LET r == ParseBack(p, e)
         IN  IF r.comp # <<>> THEN TrimRight(p, e - r.size)
             ELSE ParentLen(p, e - r.size)
    ELSE IF path_is_absolute(p) THEN -1
    ELSE IF IncludeCurDir(p) THEN e - 1
    ELSE -1

\* default.rs parent_directory: PathBuf::pop leaves the path alone when
\* there is no parent
parent_directory(p) ==
    LET n == ParentLen(p, Len(p))
    IN  IF n = -1 THEN p ELSE SubSeq(p, 1, n)

----------------------------------------------------------------------------
(* FSUtil and the functions it is built from *)

HasParent == <<"h","a","s","P","a","r","e","n","t">>
ParentPath == <<"p","a","r","e","n","t">>

\* the path_join of fsutil.rs's tests: format!("{}/{}", base, path)
test_path_join(base, path) == base \o <<"/">> \o path

\* the parent_directory of fsutil.rs's tests
test_parent_directory(p) == IF p = HasParent THEN ParentPath ELSE <<>>

\* a call through the function pointer held in a field
ApplyPathJoin(f, base, path) ==
    IF f = "default" THEN path_join(base, path) ELSE test_path_join(base, path)

ApplyParentDirectory(f, p) ==
    IF f = "default" THEN parent_directory(p) ELSE test_parent_directory(p)

\* FSUtil::path_join: the value and the injected calls made
FSUtil_path_join(self, base, path) ==
    [value |-> ApplyPathJoin(self.path_join, base, path),
     calls |-> <<[fn |-> "path_join", args |-> <<base, path>>]>>]

\* FSUtil::parent_directory
FSUtil_parent_directory(self, path) ==
    [value |-> ApplyParentDirectory(self.parent_directory, path),
     calls |-> <<[fn |-> "parent_directory", args |-> <<path>>]>>]

\* a plausible slip: an empty parent is replaced by the current directory
import_path_dot(self, source_path, path) ==
    LET parent == FSUtil_parent_directory(self, source_path)
        base == IF parent.value = <<>> THEN <<".">> ELSE parent.value
        joined == FSUtil_path_join(self, base, path)
    IN  [value |-> joined.value, calls |-> parent.calls \o joined.calls]

\* FSUtil::import_path
import_path(self, source_path, path) ==
    LET parent == FSUtil_parent_directory(self, source_path)
        joined == FSUtil_path_join(self, parent.value, path)
    IN  [value |-> joined.value, calls |-> parent.calls \o joined.calls]

\* FSUtil::new with any choice of functions; FSUtil::default() holds the
\* functions of default.rs, FS_UTIL of the tests the test functions
FSUtils == [path_join : {"default", "test"}, parent_directory : {"default", "test"}]

PathAlphabet == {"a", ".", "/"}
ExamplePaths == {HasParent, <<"s","r","c">>, <<"s","r","c","/","x","/">>}
Paths == SeqsUpTo(PathAlphabet, MaxPathLen) \cup ExamplePaths

FsInit ==
    /\ fsutil \in FSUtils
    /\ argA \in Paths
    /\ argB \in Paths
    /\ op = "none"
    /\ result = <<>>
    /\ calls = <<>>

LexIdle ==
    /\ buf = <<>>
    /\ pos = 0
    /\ results = <<>>
    /\ printed = <<>>
    /\ done = TRUE

CallPathJoin ==
    /\ op = "none"
    /\ LET r == FSUtil_path_join(fsutil, argA, argB)
       IN  result' = r.value /\ calls' = r.calls
    /\ op' = "path_join"
    /\ UNCHANGED <<fsutil, argA, argB>>

CallParentDirectory ==
    /\ op = "none"
    /\ LET r == FSUtil_parent_directory(fsutil, argA)
       IN  result' = r.value /\ calls' = r.calls
    /\ op' = "parent_directory"
    /\ UNCHANGED <<fsutil, argA, argB>>

CallImportPath ==
    /\ op = "none"
    /\ LET r == import_path(fsutil, argA, argB)
       IN  result' = r.value /\ calls' = r.calls
    /\ op' = "import_path"
    /\ UNCHANGED <<fsutil, argA, argB>>

InitFS == LexIdle /\ FsInit

NextFS ==
    \/ CallPathJoin /\ UNCHANGED lexVars
    \/ CallParentDirectory /\ UNCHANGED lexVars
    \/ CallImportPath /\ UNCHANGED lexVars

SpecFS == InitFS /\ [][NextFS]_vars

----------------------------------------------------------------------------
(* Vocabulary of the claims, stated on the buffer itself *)

IsWhitespaceChar(c) == c = " " \/ c = "\t" \/ c = "\n" \/ c = "\f"

\* the word at s: the longest run of letters, digits, `_` and `-` from s
WordAt(b, s) ==
    LET e == CHOOSE k \in (s + 1)..Len(b) :
                 /\ \A j \in (s + 1)..(k - 1) : IsIdentPart(At(b, j))
                 /\ (k = Len(b) \/ ~IsIdentPart(At(b, k)))
    IN  Slice(b, s, e)

\* the offset of the next newline after s, or the length of the buffer
LineEndAfter(b, s) ==
    CHOOSE e \in (s + 1)..Len(b) :
        /\ \A j \in (s + 1)..(e - 1) : At(b, j) # "\n"
        /\ (e = Len(b) \/ At(b, e) = "\n")

\* no `/` follows the one at s before the end of its line
NoLaterSlashOnLine(b, s) ==
    \A q \in (s + 1)..(LineEndAfter(b, s) - 1) : At(b, q) # "/"

\* no quote after s but quotes that a backslash immediately precedes
NoUnescapedQuoteAfter(b, s) ==
    \A q \in (s + 1)..(Len(b) - 1) : At(b, q) = "\"" => At(b, q - 1) = "\\"

HasError == \E i \in DOMAIN results : results[i].kind = "Error"

\* offset k lies in the span of a printed token
Covered(k) == \E i \in DOMAIN printed : printed[i].start <= k /\ k < printed[i].end

\* a path that cleaning leaves alone: not empty, no doubled or trailing
\* separator, no `.` segment (but the path `.`), `..` segments only at the
\* front of a relative path
InCleanForm(p) ==
    /\ p # <<>>
    /\ \A i \in 1..(Len(p) - 1) : ~(IsSep(p[i]) /\ IsSep(p[i + 1]))
    /\ (Len(p) > 1 => ~IsSep(p[Len(p)]))
    /\ LET segs == SelectSeq(Segments(p), LAMBDA s : s # <<>>)
       IN  /\ (p # CurDir => \A i \in DOMAIN segs : segs[i] # CurDir)
           /\ \A i \in DOMAIN segs : segs[i] = ParentDir =>
                  /\ ~path_is_absolute(p)
                  /\ \A j \in 1..(i - 1) : segs[j] = ParentDir

----------------------------------------------------------------------------
(* The claims *)

\* C1: a lexical failure is terminal for the scan: the result sequence ends
\* with the failure, and no token whose span starts after the failure
\* offset is handed to the consumer.
C1_FailureIsTerminal ==
    \A i \in DOMAIN results :
        results[i].kind = "Error" =>
            /\ i = Len(results)
            /\ \A j \in DOMAIN printed : printed[j].start <= results[i].start

\* C2: where the identifier pattern matches a word at the cursor, the token
\* spans exactly that word and is the keyword of the word if the whole word
\* is one of the 13 reserved words, and Identifier otherwise.
C2_KeywordIffWholeWord ==
    \A i \in DOMAIN results :
        LET s == results[i].start
        IN  IsIdentStart(At(buf, s)) =>
                LET w == WordAt(buf, s)
                IN  /\ results[i].end = s + Len(w)
                    /\ (w \in ReservedWords => results[i].kind = KeywordOf(w))
                    /\ (w \notin ReservedWords => results[i].kind = "Identifier")
                    /\ results[i].kind \in Keywords <=> w \in ReservedWords

\* a reserved word with one more identifier character came out as a single
\* Identifier that ends the buffer
C2_Witness ==
    \E i \in DOMAIN printed :
        /\ printed[i].kind = "Identifier"
        /\ printed[i].end - printed[i].start >= 2
        /\ printed[i].end = Len(buf)
        /\ Slice(buf, printed[i].start, printed[i].end - 1) \in ReservedWords

\* C3: a quote at s with no unescaped quote after it yields a failure at s
\* and no String token.
C3_UnclosedStringIsReported ==
    \A i \in DOMAIN results :
        LET s == results[i].start
        IN  (At(buf, s) = "\"" /\ NoUnescapedQuoteAfter(buf, s)) =>
                results[i].kind = "Error"

\* C4: when the whole buffer lexes without failure, the spans are well
\* formed, ordered and disjoint, and every character outside them is a
\* space, tab, newline or form feed.
C4_SpansPartitionBuffer ==
    (done /\ ~HasError) =>
        /\ \A i \in DOMAIN printed :
            /\ 0 <= printed[i].start
            /\ printed[i].start <= printed[i].end
            /\ printed[i].end <= Len(buf)
        /\ \A i \in 1..(Len(printed) - 1) :
            /\ printed[i].end <= printed[i + 1].start
            /\ printed[i].start <= printed[i + 1].start
        /\ \A k \in 0..(Len(buf) - 1) :
            ~Covered(k) => IsWhitespaceChar(At(buf, k))

\* a finished run without failure, with whitespace between two tokens and
\* after the last one
C4_Witness ==
    /\ done /\ ~HasError
    /\ Len(printed) >= 2
    /\ printed[1].end < printed[2].start
    /\ printed[Len(printed)].end < Len(buf)

\* C5: a cursor at `//` yields one LineComment from the first `/` to the
\* next newline or the end of the buffer.
C5_DoubleSlashIsLineComment ==
    \A i \in DOMAIN results :
        LET s == results[i].start
        IN  (s + 1 < Len(buf) /\ At(buf, s) = "/" /\ At(buf, s + 1) = "/") =>
                /\ results[i].kind = "LineComment"
                /\ results[i].end = LineEndAfter(buf, s)

\* C6: a Regex token begins at a `/` and ends right after the next `/` that
\* follows it.
C6_RegexEndsAtNearestSlash ==
    \A i \in DOMAIN results :
        results[i].kind = "Regex" =>
            /\ At(buf, results[i].start) = "/"
            /\ At(buf, results[i].end - 1) = "/"
            /\ \A q \in (results[i].start + 1)..(results[i].end - 2) :
                   At(buf, q) # "/"

\* C7: every pull either ends the sequence or moves the cursor forward by at
\* least one character without leaving the buffer, so there are never more
\* results than characters passed; and once only whitespace remains no
\* further result is produced.
C7_PullsAdvance ==
    /\ [](Len(results) <= pos /\ pos <= Len(buf))
    /\ [][(pos' > pos /\ pos' <= Len(buf)) \/ (done' /\ results' = results)]_vars
    /\ [][(\A k \in pos..(Len(buf) - 1) : IsWhitespaceChar(At(buf, k)))
            => (results' = results /\ printed' = printed)]_vars

\* a finished run that needed as many pulls as the buffer has characters
C7_Witness ==
    /\ done
    /\ Len(buf) >= 3
    /\ Len(results) = Len(buf)
    /\ HasError

\* C8 as stated: the default path_join returns the other operand unchanged
\* when one operand is empty.
C8_EmptyOperandIsNoOp ==
    (op = "path_join" /\ fsutil.path_join = "default") =>
        /\ (argB = <<>> => result = argA)
        /\ (argA = <<>> => result = argB)

\* C8 amended: with an empty operand the default path_join returns the
\* other operand in clean form, which is the operand itself exactly when it
\* is in clean form already.
C8_EmptyOperandIsCleaned ==
    (op = "path_join" /\ fsutil.path_join = "default") =>
        /\ (argB = <<>> => result = clean(argA))
        /\ (argA = <<>> => result = clean(argB))
        /\ (argB = <<>> => (result = argA <=> InCleanForm(argA)))
        /\ (argA = <<>> => (result = argB <=> InCleanForm(argB)))

\* a base with a trailing separator joined with the empty path came back
\* without the separator
C8_Witness ==
    /\ op = "path_join" /\ fsutil.path_join = "default"
    /\ argB = <<>>
    /\ argA = <<"a", "/">>
    /\ result = <<"a">>

\* C9: import_path is the instance's path_join applied to the instance's
\* parent_directory of the source path and the path, each function called
\* once, the parent passed on as returned.
C9_ImportPathComposes ==
    op = "import_path" =>
        LET parent == ApplyParentDirectory(fsutil.parent_directory, argA)
        IN  /\ result = ApplyPathJoin(fsutil.path_join, parent, argB)
            /\ calls = <<[fn |-> "parent_directory", args |-> <<argA>>],
                         [fn |-> "path_join", args |-> <<parent, argB>>]>>

\* the test instance, a source without parent: the empty base reached
\* path_join and the result is "/" followed by the path
C9_Witness ==
    /\ op = "import_path"
    /\ fsutil = [path_join |-> "test", parent_directory |-> "test"]
    /\ argA # HasParent
    /\ argB # <<>>
    /\ calls[2].args[1] = <<>>
    /\ result = <<"/">> \o argB

\* C10: a `/` at the cursor comes out as a one-character Slash exactly when
\* no other `/` follows on its line; otherwise it starts a LineComment or a
\* Regex.
C10_SlashIffNoLaterSlash ==
    \A i \in DOMAIN results :
        LET s == results[i].start
        IN  At(buf, s) = "/" =>
                /\ (results[i].kind = "Slash" /\ results[i].end = s + 1)
                       <=> NoLaterSlashOnLine(buf, s)
                /\ ~NoLaterSlashOnLine(buf, s) =>
                       results[i].kind \in {"LineComment", "Regex"}

\* two Slash tokens in one buffer: the second `/` is on a later line
C10_Witness ==
    \E i \in DOMAIN printed :
        /\ printed[i].kind = "Slash"
        /\ \E j \in DOMAIN printed : j > i /\ printed[j].kind = "Slash"

====
